---- MODULE Spec2Model ----
(***************************************************************************)
(* LU decomposition with row pivoting, ProjectA/matrix.py.                 *)
(*                                                                         *)
(* The matrix M is a sequence of rows; rows and columns are numbered from  *)
(* 0 as in the source, so M[i, j] of the source is At(M, i, j).  The lists *)
(* `used` and `P` of _pivot are sequences: P[col] of the source is         *)
(* P[col + 1] here.  Floats are modelled by exact rationals extended with  *)
(* +inf, -inf and nan (what numpy produces on a division by zero).         *)
(***************************************************************************)
EXTENDS Integers, Sequences, FiniteSets, TLC

\* Largest dimension of the matrices drawn by Init.
MaxN == 3
\* Longest permutation list handed to _det_P on its own (SpecDet).
MaxPermLen == 5

\* Entry values: signed values up to 3x3, 0/1 patterns above.
SignedDims == {1, 2, 3}
SignedEntries == {-2, 0, 1}
PatternEntries == {0, 1}
Entries(d) == IF d \in SignedDims THEN SignedEntries ELSE PatternEntries
Matrices(d) == [1..d -> [1..d -> Entries(d)]]

VARIABLES
    M,      \* LU/_pivot: the input matrix (integer entries)
    used,   \* _pivot: rows already given to a column, in order of use
    P,      \* _pivot: P[col] = row; in SpecDet the argument v of _det_P
    col,    \* _pivot: the column the for loop is at
    calls,  \* history: every call of _check_unused/_repivot_used that returned
    depth,  \* history: deepest nesting of _repivot_used entered so far
    reentered, \* history: a column was re-entered with `used` and P unchanged
    pc,     \* where LU is: "pivot", "pivoted", "crout", "done", or the
            \* exception that ended it; "_det_P", "sign" in SpecDet
    Pmat,   \* LU: the permutation matrix P returned by _pivot
    n,      \* LU: the sign returned by _pivot (_det_P)
    LUm,    \* LU: the working copy M = P * M, decomposed in place
    j,      \* LU: the column the Crout loop is at
    L,      \* LU: _Lower(M)
    U       \* LU: _Upper(M)

vars == <<M, used, P, col, calls, depth, reentered, pc, Pmat, n, LUm, j, L, U>>

----------------------------------------------------------------------------
\* Lists and matrices, 0-based as in the source.

Range(s) == {s[i] : i \in DOMAIN s}
At(m, i, k) == m[i + 1][k + 1]
Put(m, i, k, x) == [m EXCEPT ![i + 1][k + 1] = x]
Rows(m) == [i \in 1..Len(m) |-> i - 1]

\* list.index(x): position of the first x, or -1 where Python raises ValueError.
Index(p, x) ==
    IF x \in Range(p)
    THEN (CHOOSE i \in DOMAIN p : p[i] = x /\ \A k \in 1..(i - 1) : p[k] # x) - 1
    ELSE -1

\* try: P[col] = x / except IndexError: P.append(x)
Assign(p, c, x) == IF c < Len(p) THEN [p EXCEPT ![c + 1] = x] ELSE Append(p, x)

\* Faulty variant of TupleGeq: entries ranked by magnitude instead of signed value.
TupleGeqAbs(a, b) ==
    LET x == IF a[1] < 0 THEN -a[1] ELSE a[1]
        y == IF b[1] < 0 THEN -b[1] ELSE b[1]
    IN x > y \/ (x = y /\ a[2] >= b[2])

\* Tuple order of (value, row) pairs.
TupleGeq(a, b) == a[1] > b[1] \/ (a[1] = b[1] /\ a[2] >= b[2])

Remove(s, i) == [k \in 1..(Len(s) - 1) |-> IF k < i THEN s[k] ELSE s[k + 1]]

\* entries.sort(reverse=True)
RECURSIVE SortReverse(_)
SortReverse(es) ==
    IF es = <<>> THEN <<>>
    ELSE LET i == CHOOSE i \in DOMAIN es :
                      /\ \A k \in DOMAIN es : TupleGeq(es[i], es[k])
                      /\ \A k \in 1..(i - 1) : es[k] # es[i]
         IN <<es[i]>> \o SortReverse(Remove(es, i))

----------------------------------------------------------------------------
\* _pivot and its helpers.  A search state s is [used, P, log, depth,
\* reentered, err]: the two lists the helpers mutate, and the history.

Logged(s0, s1, fn, c, ret) ==
    [s1 EXCEPT !.log = Append(@, [fn |-> fn, col |-> c, ret |-> ret,
                                  used0 |-> s0.used, P0 |-> s0.P,
                                  used1 |-> s1.used, P1 |-> s1.P])]

Result(s, ret) == [ret |-> ret, s |-> s]

\* Faulty variant of UnusedEntries: the test M[i, col] != 0 is missing.
UnusedEntriesAnyEntry(c, m, u) ==
    LET rows == SelectSeq(Rows(m), LAMBDA i : i \notin Range(u))
    IN [k \in 1..Len(rows) |-> <<At(m, rows[k], c), rows[k]>>]

\* Faulty variant of UnusedEntries: the test `i not in used` is missing.
UnusedEntriesAnyRow(c, m, u) ==
    LET rows == SelectSeq(Rows(m), LAMBDA i : At(m, i, c) # 0)
    IN [k \in 1..Len(rows) |-> <<At(m, rows[k], c), rows[k]>>]

\* for row in [i for i in range(len(M)) if i not in used and M[i, col] != 0]:
\*     entries.append((M[row, col], row))
UnusedEntries(c, m, u) ==
    LET rows == SelectSeq(Rows(m), LAMBDA i : i \notin Range(u) /\ At(m, i, c) # 0)
    IN [k \in 1..Len(rows) |-> <<At(m, rows[k], c), rows[k]>>]

CheckUnused(c, m, s) ==
    LET entries == SortReverse(UnusedEntries(c, m, s.used))
    IN IF entries = <<>>
       THEN Result(Logged(s, s, "_check_unused", c, FALSE), FALSE)
       ELSE LET s1 == [s EXCEPT !.used = Append(@, entries[1][2]),
                                !.P = Assign(@, c, entries[1][2])]
            IN Result(Logged(s, s1, "_check_unused", c, TRUE), TRUE)

\* for row in used: if M[row, col] != 0 and P.index(row) != col: ...
UsedEntries(c, m, s) ==
    LET rows == SelectSeq(s.used, LAMBDA r : At(m, r, c) # 0 /\ Index(s.P, r) # c)
    IN [k \in 1..Len(rows) |-> <<At(m, rows[k], c), rows[k]>>]

\* P.index(row) raises for a row of `used` with a non-zero entry that is not in P.
IndexRaises(c, m, s) ==
    \E k \in DOMAIN s.used : At(m, s.used[k], c) # 0 /\ Index(s.P, s.used[k]) < 0

\* The interpreter's recursion limit, scaled to the model: a nesting deeper
\* than the number of columns repeats a column in an unchanged state, so it
\* never ends and Python raises RecursionError.
RecursionLimit(m) == Len(m) + 1

Raise(s, e) == Result([s EXCEPT !.err = e], FALSE)

RECURSIVE RepivotUsed(_, _, _, _)
RECURSIVE FirstLoop(_, _, _, _, _, _, _)
RECURSIVE SecondLoop(_, _, _, _, _, _, _)

\* Faulty variant of FirstLoop: P[col] = entry[1] is done before _check_unused is
\* tried, and stays when it fails.
RECURSIVE FirstLoopAssignFirst(_, _, _, _, _, _, _)
FirstLoopAssignFirst(c, m, s0, s, stack, entries, k) ==
    IF k > Len(entries) THEN SecondLoop(c, m, s0, s, stack, entries, 1)
    ELSE LET used_col == Index(s.P, entries[k][2])
         IN IF used_col < 0 THEN Raise(s, "ValueError: not in list")
            ELSE LET r == CheckUnused(used_col, m,
                                      [s EXCEPT !.P = Assign(@, c, entries[k][2])])
                 IN IF r.ret
                    THEN Result(Logged(s0, r.s, "_repivot_used", c, TRUE), TRUE)
                    ELSE FirstLoopAssignFirst(c, m, s0, r.s, stack, entries, k + 1)

\* Faulty variant of SecondLoop: no second loop, the search gives up when no used
\* row can be replaced by an unused one.
SecondLoopGiveUp(c, m, s0, s, stack, entries, k) ==
    Result(Logged(s0, s, "_repivot_used", c, FALSE), FALSE)

\* for entry in entries: (the first loop, from entry k on)
\*     if _check_unused(P.index(entry[1]), M, used, P): P[col] = entry[1]; return True
FirstLoop(c, m, s0, s, stack, entries, k) ==
    IF k > Len(entries) THEN SecondLoop(c, m, s0, s, stack, entries, 1)
    ELSE LET used_col == Index(s.P, entries[k][2])
         IN IF used_col < 0 THEN Raise(s, "ValueError: not in list")
            ELSE LET r == CheckUnused(used_col, m, s)
                 IN IF r.ret
                    THEN LET s1 == [r.s EXCEPT !.P = Assign(@, c, entries[k][2])]
                         IN Result(Logged(s0, s1, "_repivot_used", c, TRUE), TRUE)
                    ELSE FirstLoop(c, m, s0, r.s, stack, entries, k + 1)

\* else: for entry in entries: (the second loop, from entry k on)
\*     if _repivot_used(P.index(entry[1]), M, used, P): P[col] = entry[1]; return True
\* else: return False
SecondLoop(c, m, s0, s, stack, entries, k) ==
    IF k > Len(entries)
    THEN Result(Logged(s0, s, "_repivot_used", c, FALSE), FALSE)
    ELSE LET used_col == Index(s.P, entries[k][2])
         IN IF used_col < 0 THEN Raise(s, "ValueError: not in list")
            ELSE LET r == RepivotUsed(used_col, m, s, stack)
                 IN IF r.s.err # "none" THEN r
                    ELSE IF r.ret
                    THEN LET s1 == [r.s EXCEPT !.P = Assign(@, c, entries[k][2])]
                         IN Result(Logged(s0, s1, "_repivot_used", c, TRUE), TRUE)
                    ELSE SecondLoop(c, m, s0, r.s, stack, entries, k + 1)

\* `stack` holds the frames of the _repivot_used calls this one is nested in.
RepivotUsed(c, m, s, stack) ==
    LET frame == <<c, s.used, s.P>>
        here == Append(stack, frame)
        s1 == [s EXCEPT !.depth = IF Len(here) > @ THEN Len(here) ELSE @,
                        !.reentered = @ \/ frame \in Range(stack)]
    IN IF Len(here) > RecursionLimit(m) THEN Raise(s1, "RecursionError")
       ELSE IF IndexRaises(c, m, s1) THEN Raise(s1, "ValueError: not in list")
       ELSE FirstLoop(c, m, s1, s1, here, SortReverse(UsedEntries(c, m, s1)), 1)

\* The body of `for col in range(len(M))` in _pivot: what it does to the
\* search state, and how it leaves: "continue" or the exception raised.
PivotBody(c, m, s) ==
    LET r1 == CheckUnused(c, m, s)
    IN IF r1.ret THEN [s |-> r1.s, branch |-> "unused", exit |-> "continue"]
       ELSE LET r2 == RepivotUsed(c, m, r1.s, <<>>)
            IN IF r2.s.err # "none"
               THEN [s |-> r2.s, branch |-> "error", exit |-> r2.s.err]
               ELSE IF r2.ret
               THEN [s |-> r2.s, branch |-> "repivot", exit |-> "continue"]
               ELSE [s |-> r2.s, branch |-> "raise", exit |-> "ValueError"]

\* _matrix_P: row k of the matrix has its 1 in column P[k].
MatrixP(p) == [k \in 1..Len(p) |-> [i \in 1..Len(p) |-> IF i - 1 = p[k] THEN 1 ELSE 0]]

Pow(b, e) == IF e % 2 = 0 THEN 1 ELSE b

\* Faulty variant of Adjust: the inner loop runs over v[1:i + 1], missing v[0].
RECURSIVE AdjustSkipFirst(_, _, _, _)
AdjustSkipFirst(v, viold, vi, k) ==
    IF k <= 1 THEN vi
    ELSE AdjustSkipFirst(v, viold, IF v[k] < viold THEN vi - 1 ELSE vi, k - 1)

\* for vj in v[:i + 1]: if vj < viold: vi -= 1
RECURSIVE Adjust(_, _, _, _)
Adjust(v, viold, vi, k) ==
    IF k = 0 THEN vi
    ELSE Adjust(v, viold, IF v[k] < viold THEN vi - 1 ELSE vi, k - 1)

\* for i, vi in enumerate(v[1:-1]): ...; n *= (-1) ** vi
\* (position i of the slice is position i + 2 of the sequence v)
RECURSIVE DetLoop(_, _, _)
DetLoop(v, i, sgn) ==
    IF i + 2 > Len(v) - 1 THEN sgn
    ELSE DetLoop(v, i + 1, sgn * Pow(-1, Adjust(v, v[i + 2], v[i + 2], i + 1)))

DetP(v) == DetLoop(v, 0, 1 * Pow(-1, v[1]))

\* _pivot as a whole: how the call ends for matrix m.
RECURSIVE PivotLoop(_, _, _)
PivotLoop(m, c, s) ==
    IF c >= Len(m) THEN "return"
    ELSE LET b == PivotBody(c, m, s)
         IN IF b.exit = "continue" THEN PivotLoop(m, c + 1, b.s) ELSE b.exit

Pivot(m) ==
    PivotLoop(m, 0, [used |-> <<>>, P |-> <<>>, log |-> <<>>, depth |-> 0,
                     reentered |-> FALSE, err |-> "none"])

----------------------------------------------------------------------------
\* Floats: <<a, b>> with b > 0 is the rational a/b in lowest terms;
\* <<1, 0>> is +inf, <<-1, 0>> is -inf and <<0, 0>> is nan.  A zero divisor
\* is +0.0: the divisors of LU are upper entries, which start as +0.0 or
\* non-zero and only have products subtracted from them.

Abs(x) == IF x < 0 THEN -x ELSE x
Sgn(x) == IF x < 0 THEN -1 ELSE IF x > 0 THEN 1 ELSE 0

RECURSIVE GCD(_, _)
GCD(a, b) == IF b = 0 THEN a ELSE GCD(b, a % b)

Norm(a, b) ==
    IF b = 0 THEN <<Sgn(a), 0>>
    ELSE LET g == GCD(Abs(a), Abs(b))
         IN <<(Sgn(b) * a) \div g, Abs(b) \div g>>

Zero == <<0, 1>>
One == <<1, 1>>
NaN == <<0, 0>>
Float(x) == <<x, 1>>
Finite(x) == x[2] > 0

FMul(x, y) == Norm(x[1] * y[1], x[2] * y[2])

FSub(x, y) ==
    IF x[2] = 0 /\ y[2] = 0
    THEN IF x[1] # 0 /\ x[1] = -y[1] THEN x ELSE NaN
    ELSE Norm(x[1] * y[2] - y[1] * x[2], x[2] * y[2])

FDiv(x, y) ==
    IF x[2] = 0 /\ y[2] > 0 /\ y[1] < 0 THEN <<-x[1], 0>>
    ELSE Norm(x[1] * y[2], x[2] * y[1])

\* M.astype('float')
AsFloat(m) == [i \in 1..Len(m) |-> [k \in 1..Len(m) |-> Float(m[i][k])]]

\* a * b for np.matrix: the matrix product.
RECURSIVE DotInt(_, _, _, _, _)
DotInt(a, b, i, k, t) ==
    IF t = 0 THEN 0 ELSE DotInt(a, b, i, k, t - 1) + a[i][t] * b[t][k]

MatMul(a, b) == [i \in 1..Len(a) |-> [k \in 1..Len(a) |-> DotInt(a, b, i, k, Len(a))]]

\* for k in range(kmax): mij -= M[i, k] * M[k, j]
RECURSIVE SubProducts(_, _, _, _, _, _)
SubProducts(m, i, jj, k, kmax, mij) ==
    IF k >= kmax THEN mij
    ELSE SubProducts(m, i, jj, k + 1, kmax, FSub(mij, FMul(At(m, i, k), At(m, k, jj))))

\* for i in range(j + 1): the entries of the upper matrix in column j
RECURSIVE UpperEntries(_, _, _)
UpperEntries(m, jj, i) ==
    IF i > jj THEN m
    ELSE UpperEntries(Put(m, i, jj, SubProducts(m, i, jj, 0, i, At(m, i, jj))), jj, i + 1)

\* for i in range(j + 1, len(M)): the entries of the lower matrix in column
\* j, each divided by M[j, j]
RECURSIVE LowerEntries(_, _, _)
LowerEntries(m, jj, i) ==
    IF i >= Len(m) THEN m
    ELSE LowerEntries(Put(m, i, jj, FDiv(SubProducts(m, i, jj, 0, jj, At(m, i, jj)),
                                         At(m, jj, jj))), jj, i + 1)

\* _Lower: ((LU[i, j], 0)[i < j], 1)[i == j]
Lower(m) ==
    [i \in 1..Len(m) |-> [k \in 1..Len(m) |->
        IF i = k THEN One ELSE IF i < k THEN Zero ELSE m[i][k]]]

\* _Upper: (LU[i, j], 0)[i > j]
Upper(m) ==
    [i \in 1..Len(m) |-> [k \in 1..Len(m) |-> IF i > k THEN Zero ELSE m[i][k]]]

----------------------------------------------------------------------------
\* The state machine of LU(M).

State == [used |-> used, P |-> P, log |-> calls, depth |-> depth,
          reentered |-> reentered, err |-> "none"]

Init ==
    /\ \E d \in 1..MaxN : M \in Matrices(d)
    /\ used = <<>> /\ P = <<>> /\ col = 0
    /\ calls = <<>> /\ depth = 0 /\ reentered = FALSE
    /\ pc = "pivot"
    /\ Pmat = <<>> /\ n = 0 /\ LUm = <<>> /\ j = 0 /\ L = <<>> /\ U = <<>>

LUvars == <<Pmat, n, LUm, j, L, U>>

\* One iteration of `for col in range(len(M))`:
\*     if _check_unused(col, M, used, P): continue
\*     elif _repivot_used(col, M, used, P): continue
\*     else: raise ValueError("Col of 0's!")
\* An exception raised inside _repivot_used leaves _pivot and LU as well.
PivotStep ==
    /\ pc = "pivot" /\ col < Len(M)
    /\ \E b \in {PivotBody(col, M, State)} :
          /\ used' = b.s.used /\ P' = b.s.P
          /\ calls' = b.s.log /\ depth' = b.s.depth /\ reentered' = b.s.reentered
          /\ col' = IF b.exit = "continue" THEN col + 1 ELSE col
          /\ pc' = IF b.exit = "continue" THEN pc ELSE b.exit
    /\ UNCHANGED <<M, LUvars>>

\* return _matrix_P(P), _det_P(P)
PivotReturn ==
    /\ pc = "pivot" /\ col = Len(M)
    /\ Pmat' = MatrixP(P) /\ n' = DetP(P)
    /\ pc' = "pivoted"
    /\ UNCHANGED <<M, used, P, col, calls, depth, reentered, LUm, j, L, U>>

\* M = P * M
Permute ==
    /\ pc = "pivoted"
    /\ LUm' = AsFloat(MatMul(Pmat, M)) /\ j' = 0
    /\ pc' = "crout"
    /\ UNCHANGED <<M, used, P, col, calls, depth, reentered, Pmat, n, L, U>>

\* One iteration of `for j in range(len(M))`, Crout's method on column j.
CroutColumn ==
    /\ pc = "crout" /\ j < Len(LUm)
    /\ LUm' = LowerEntries(UpperEntries(LUm, j, 0), j, j + 1)
    /\ j' = j + 1
    /\ UNCHANGED <<M, used, P, col, calls, depth, reentered, pc, Pmat, n, L, U>>

\* return P, n, _Lower(M), _Upper(M)
LUReturn ==
    /\ pc = "crout" /\ j = Len(LUm)
    /\ L' = Lower(LUm) /\ U' = Upper(LUm)
    /\ pc' = "done"
    /\ UNCHANGED <<M, used, P, col, calls, depth, reentered, Pmat, n, LUm, j>>

Next == PivotStep \/ PivotReturn \/ Permute \/ CroutColumn \/ LUReturn

Spec == Init /\ [][Next]_vars

\* The same machine on matrices one dimension larger.
InitWide ==
    /\ \E d \in 1..(MaxN + 1) : M \in Matrices(d)
    /\ used = <<>> /\ P = <<>> /\ col = 0
    /\ calls = <<>> /\ depth = 0 /\ reentered = FALSE
    /\ pc = "pivot"
    /\ Pmat = <<>> /\ n = 0 /\ LUm = <<>> /\ j = 0 /\ L = <<>> /\ U = <<>>

SpecWide == InitWide /\ [][Next]_vars

\* _det_P on its own: v (held in P) is any permutation list of 0..k-1.
Perms(k) == {p \in [1..k -> 0..(k - 1)] : \A a, b \in 1..k : p[a] = p[b] => a = b}

InitDet ==
    /\ \E k \in 1..MaxPermLen : P \in Perms(k)
    /\ M = <<>> /\ used = <<>> /\ col = 0
    /\ calls = <<>> /\ depth = 0 /\ reentered = FALSE
    /\ pc = "_det_P"
    /\ Pmat = <<>> /\ n = 0 /\ LUm = <<>> /\ j = 0 /\ L = <<>> /\ U = <<>>

DetPCall ==
    /\ pc = "_det_P"
    /\ n' = DetP(P) /\ Pmat' = MatrixP(P)
    /\ pc' = "sign"
    /\ UNCHANGED <<M, used, P, col, calls, depth, reentered, LUm, j, L, U>>

SpecDet == InitDet /\ [][DetPCall]_vars

----------------------------------------------------------------------------
\* Vocabulary of the properties.

Dim == Len(M)
Cols == 0..(Dim - 1)
Returned == pc \in {"pivoted", "crout", "done"}

\* The non-zero pattern of m admits a row permutation with no zero pivot.
HasMatching(m) == \E p \in Perms(Len(m)) : \A c \in 0..(Len(m) - 1) : At(m, p[c + 1], c) # 0
HasZeroColumn(m) == \E c \in 0..(Len(m) - 1) : \A i \in 0..(Len(m) - 1) : At(m, i, c) = 0

\* Determinant of an integer matrix, by expansion along the first row.
Minor(m, k) ==
    [i \in 1..(Len(m) - 1) |-> [c \in 1..(Len(m) - 1) |->
        m[i + 1][IF c < k THEN c ELSE c + 1]]]

RECURSIVE Det(_)
RECURSIVE DetRow(_, _)
DetRow(m, k) ==
    IF k = 0 THEN 0
    ELSE DetRow(m, k - 1) + Pow(-1, k + 1) * m[1][k] * Det(Minor(m, k))
Det(m) == IF Len(m) = 0 THEN 1 ELSE DetRow(m, Len(m))

Inversions(p) == Cardinality({ab \in (DOMAIN p) \X (DOMAIN p) : ab[1] < ab[2] /\ p[ab[1]] > p[ab[2]]})

\* The product of two float matrices.
RECURSIVE DotFloat(_, _, _, _, _)
DotFloat(a, b, i, k, t) ==
    IF t = 0 THEN Zero
    ELSE LET x == DotFloat(a, b, i, k, t - 1)
             y == FMul(a[i][t], b[t][k])
         IN IF Finite(x) /\ Finite(y) THEN Norm(x[1] * y[2] + y[1] * x[2], x[2] * y[2])
            ELSE NaN
FloatMatMul(a, b) ==
    [i \in 1..Len(a) |-> [k \in 1..Len(a) |-> DotFloat(a, b, i, k, Len(a))]]
AllFinite(m) == \A i, k \in 1..Len(m) : Finite(m[i][k])

\* The rows _check_unused may choose for column c when `used` is u.
Candidates(c, u) == {i \in Cols : i \notin Range(u) /\ At(M, i, c) # 0}

----------------------------------------------------------------------------
\* C1: whenever _pivot has returned, M[P[c], c] # 0 for every column c, and
\* every diagonal entry of the permuted matrix P * M is non-zero.
C1_NonZeroPivots ==
    Returned =>
        /\ Len(P) = Dim
        /\ \A c \in Cols : At(M, P[c + 1], c) # 0
        /\ \A c \in Cols : At(MatMul(Pmat, M), c, c) # 0

\* C1 witness: _pivot returned for a 3x3 matrix with a zero on its own
\* diagonal, after a successful re-pivoting.
C1_Witness ==
    /\ pc = "pivoted" /\ Dim = 3
    /\ \E c \in Cols : At(M, c, c) = 0
    /\ \E k \in DOMAIN calls : calls[k].fn = "_repivot_used" /\ calls[k].ret

\* C2: whenever _pivot has returned, P holds every row 0..n-1 exactly once,
\* and the permutation matrix has exactly one 1 in each row and each column
\* and 0 elsewhere.
C2_Bijection ==
    Returned =>
        /\ Len(P) = Dim
        /\ \A r \in Cols : Cardinality({c \in Cols : P[c + 1] = r}) = 1
        /\ \A i, k \in 1..Dim : Pmat[i][k] \in {0, 1}
        /\ \A i \in 1..Dim : Cardinality({k \in 1..Dim : Pmat[i][k] = 1}) = 1
        /\ \A k \in 1..Dim : Cardinality({i \in 1..Dim : Pmat[i][k] = 1}) = 1

\* C2 witness: _pivot returned a non-identity permutation of a 3x3 matrix
\* after both direct assignments and a successful nested re-pivoting.
C2_Witness ==
    /\ pc = "pivoted" /\ Dim = 3 /\ depth >= 2
    /\ \E c \in Cols : P[c + 1] # c
    /\ \E k \in DOMAIN calls : calls[k].fn = "_repivot_used" /\ calls[k].ret

\* C3: a matrix with an all-zero column never ends otherwise than by the
\* unpivotable-matrix error (ValueError "Col of 0's!").
C3_ZeroColumnRaises ==
    HasZeroColumn(M) => pc \in {"pivot", "ValueError"}

\* C4: for an invertible M, LU returns with P * M = L * U and no infinite
\* or undefined entry in L or U.
C4_Decomposition ==
    (pc = "done" /\ Det(M) # 0) =>
        /\ AllFinite(L) /\ AllFinite(U)
        /\ FloatMatMul(L, U) = AsFloat(MatMul(Pmat, M))

\* C5: for every permutation list, the sign computed by _det_P is +1 or -1,
\* is (-1) to the number of inversions, and is the determinant of the
\* permutation matrix built by _matrix_P.
C5_SignIsParity ==
    pc = "sign" =>
        /\ n \in {-1, 1}
        /\ n = Pow(-1, Inversions(P))
        /\ n = Det(Pmat)

\* C5 witness: _det_P returned -1 for a list of 4 or more rows that neither
\* starts nor ends in place.
C5_Witness ==
    /\ pc = "sign" /\ n = -1 /\ Len(P) >= 4
    /\ P[1] # 0 /\ P[Len(P)] # Len(P) - 1

\* C6: the pivot search ends by a return or the unpivotable error, the
\* nesting of _repivot_used never exceeds the number of columns, and no
\* column is re-entered with `used` and P unchanged.
C6_RecursionBounded ==
    /\ pc # "RecursionError"
    /\ depth <= Dim
    /\ ~reentered

\* C7: every diagonal entry the Crout loop has divided by is non-zero.
\* Column jj's lower entries are divided by M[jj, jj] when there is a row
\* below the diagonal; that entry is not written again afterwards.
C7_DivisorsNonZero ==
    pc \in {"crout", "done"} =>
        \A jj \in 0..(j - 1) : jj < Dim - 1 => At(LUm, jj, jj) # Zero

C9_CheckUnused ==
    \A k \in DOMAIN calls :
        LET e == calls[k]
            cands == Candidates(e.col, e.used0)
        IN e.fn = "_check_unused" =>
            /\ cands # {} =>
                /\ e.ret
                /\ \E row \in cands :
                    /\ \A i \in cands : At(M, i, e.col) <= At(M, row, e.col)
                    /\ e.used1 = Append(e.used0, row)
                    /\ e.P1 = IF e.col < Len(e.P0)
                              THEN [e.P0 EXCEPT ![e.col + 1] = row]
                              ELSE Append(e.P0, row)
                    /\ Len(e.P1) > e.col /\ e.P1[e.col + 1] = row
            /\ e.used1 # e.used0 =>
                /\ Len(e.used1) = Len(e.used0) + 1
                /\ e.used1[Len(e.used1)] \in cands

\* C9 witness: one call chose the entry 1 over an unused row holding -2,
\* and one call overwrote an existing P[col].
C9_Witness ==
    /\ \E k \in DOMAIN calls :
        /\ calls[k].fn = "_check_unused" /\ calls[k].ret
        /\ At(M, calls[k].P1[calls[k].col + 1], calls[k].col) = 1
        /\ \E i \in Candidates(calls[k].col, calls[k].used0) : At(M, i, calls[k].col) = -2
    /\ \E k \in DOMAIN calls :
        /\ calls[k].fn = "_check_unused" /\ calls[k].ret
        /\ calls[k].col < Len(calls[k].P0)

\* C10: a call of _check_unused or _repivot_used that returned False left
\* `used` and P as they were, and every row of `used` is still in P.
C10_FailedCallsChangeNothing ==
    \A k \in DOMAIN calls :
        calls[k].ret = FALSE =>
            /\ calls[k].used1 = calls[k].used0
            /\ calls[k].P1 = calls[k].P0
            /\ \A r \in Range(calls[k].used1) : Index(calls[k].P1, r) >= 0

\* C10 witness: two nested _repivot_used calls (for columns that already
\* have a row) returned False one after the other, for different columns.
C10_Witness ==
    \E k, k2 \in DOMAIN calls :
        /\ k < k2 /\ calls[k].col # calls[k2].col
        /\ \A x \in {k, k2} :
            /\ calls[x].fn = "_repivot_used" /\ ~calls[x].ret
            /\ calls[x].col < Len(calls[x].P0)

====
